---- MODULE Spec2Model ----
(***************************************************************************)
(* A model of the KOL analytics read-API: the in-memory record store of    *)
(* KOLService (backend/app/services/kol_service.py), its list / getById /  *)
(* stats operations, and the FastAPI routes that call them                 *)
(* (backend/app/api/routes_kols.py).                                       *)
(*                                                                         *)
(* Strings whose characters matter (name, affiliation, country, search)    *)
(* are sequences of one-character strings; strings only compared for       *)
(* equality (id, expertise_area, sort_by, order) are TLA+ strings.         *)
(* Optional values are sets: {} is None, {v} is the value v.               *)
(***************************************************************************)
EXTENDS Integers, Sequences, FiniteSets

VARIABLES kols, loaded, request, response, startup

vars == <<kols, loaded, request, response, startup>>

(***************************************************************************)
(* Python values                                                           *)
(***************************************************************************)
None == {}

Some(v) == {v}

Val(o) == CHOOSE v \in o : TRUE

\* truthiness of an Optional[str] held as a character sequence
TruthySeq(o) == o # None /\ Len(Val(o)) > 0

\* truthiness of an Optional[str] held as a TLA+ string
TruthyStr(o) == o # None /\ Val(o) # ""

\* truthiness of an Optional[int]
TruthyInt(o) == o # None /\ Val(o) # 0

Min(a, b) == IF a <= b THEN a ELSE b

Max(a, b) == IF a >= b THEN a ELSE b

Reverse(s) == [i \in 1..Len(s) |-> s[Len(s) + 1 - i]]

\* code point of a character (the characters the model's data uses)
Ord(c) ==
  CASE c = " " -> 32
    [] c = "A" -> 65
    [] c = "B" -> 66
    [] c = "N" -> 78
    [] c = "a" -> 97
    [] c = "b" -> 98
    [] c = "n" -> 110

\* str.lower(), character by character
LowerChar(c) ==
  CASE c = "A" -> "a"
    [] c = "B" -> "b"
    [] c = "N" -> "n"
    [] OTHER -> c

Lower(s) == [i \in 1..Len(s) |-> LowerChar(s[i])]

\* Python's `sub in s` on strings
Contains(s, sub) ==
  \E i \in 0..(Len(s) - Len(sub)) : SubSeq(s, i + 1, i + Len(sub)) = sub

\* Python's s[start:] for start >= 0
SliceFrom(s, start) == SubSeq(s, start + 1, Len(s))

\* Python's s[:stop], stop of either sign
SliceTo(s, stop) ==
  IF stop >= 0 THEN SubSeq(s, 1, Min(stop, Len(s)))
  ELSE SubSeq(s, 1, Max(Len(s) + stop, 0))

\* the list comprehension [x for x in s if Keep(x)]
RECURSIVE SelectIdx(_, _, _)
SelectIdx(s, keep, i) ==
  IF i > Len(s) THEN <<>>
  ELSE (IF i \in keep THEN <<s[i]>> ELSE <<>>) \o SelectIdx(s, keep, i + 1)

(***************************************************************************)
(* The KOL record (models/kol.py)                                          *)
(***************************************************************************)
KOL(id, name, affiliation, country, expertise_area, publications_count, h_index, citations) ==
  [id |-> id, name |-> name, affiliation |-> affiliation, country |-> country,
   city |-> None, expertise_area |-> expertise_area,
   publications_count |-> publications_count, h_index |-> h_index,
   citations |-> citations]

\* getattr(x, sort_by) for the numeric sort fields
NumField(x, field) ==
  CASE field = "publications_count" -> x.publications_count
    [] field = "citations" -> x.citations
    [] field = "h_index" -> x.h_index

(***************************************************************************)
(* list.sort(key=..., reverse=...)                                         *)
(* Keys are integer sequences compared the way Python compares tuples and  *)
(* strings: element by element, a proper prefix first.                     *)
(***************************************************************************)
RECURSIVE LexLess(_, _)
LexLess(a, b) ==
  IF Len(b) = 0 THEN FALSE
  ELSE IF Len(a) = 0 THEN TRUE
  ELSE IF Head(a) # Head(b) THEN Head(a) < Head(b)
  ELSE LexLess(Tail(a), Tail(b))

\* insert the decorated element e after every element whose key is not greater
RECURSIVE InsertStable(_, _)
InsertStable(sorted, e) ==
  IF Len(sorted) = 0 THEN <<e>>
  ELSE IF LexLess(e.key, Head(sorted).key) THEN <<e>> \o sorted
  ELSE <<Head(sorted)>> \o InsertStable(Tail(sorted), e)

RECURSIVE StableSort(_)
StableSort(dec) ==
  IF Len(dec) = 0 THEN <<>>
  ELSE InsertStable(StableSort(SubSeq(dec, 1, Len(dec) - 1)), dec[Len(dec)])

\* a descending sort that reverses an ascending one: ties come out reversed
ListSortReversed(dec, reverse) ==
  IF reverse THEN Reverse(StableSort(dec)) ELSE StableSort(dec)

\* reverse=True: the list is reversed, sorted stably ascending, reversed again
ListSort(dec, reverse) ==
  IF reverse THEN Reverse(StableSort(Reverse(dec))) ELSE StableSort(dec)

\* key=lambda x: x.name
NameKey(x) == [i \in 1..Len(x.name) |-> Ord(x.name[i])]

\* key=lambda x: (getattr(x, sort_by) is None,
\*                getattr(x, sort_by) or (float('-inf') if not reverse else float('inf')))
\* the second component is <<sign, value>>: <<-1, 0>> is -inf, <<1, 0>> is inf
NumericKey(x, sort_by, reverse) ==
  LET v == NumField(x, sort_by)
  IN  <<IF v = None THEN 1 ELSE 0>> \o
      (IF TruthyInt(v) THEN <<0, Val(v)>>
       ELSE IF ~reverse THEN <<-1, 0>> ELSE <<1, 0>>)

SortKey(x, sort_by, reverse) ==
  IF sort_by = "name" THEN NameKey(x) ELSE NumericKey(x, sort_by, reverse)

SortedBy(list, sort_by, reverse) ==
  LET dec == [i \in 1..Len(list) |->
                [key |-> SortKey(list[i], sort_by, reverse), item |-> list[i]]]
      out == ListSort(dec, reverse)
  IN  [i \in 1..Len(out) |-> out[i].item]

(***************************************************************************)
(* KOLService.get_kols_filtered                                            *)
(***************************************************************************)
valid_sort_fields == {"publications_count", "citations", "h_index", "name"}

valid_orders == {"asc", "desc"}

\* result = self._kols: the store's own list object
ListAlias(list) == [list |-> list, alias |-> TRUE]

\* self._kols.copy(): a new list object, not an alias of the store
ListCopy(list) == [list |-> list, alias |-> FALSE]

FilterCountry(list, country) ==
  SelectIdx(list, {i \in 1..Len(list) : list[i].country = country}, 1)

FilterExpertise(list, expertise_area) ==
  SelectIdx(list, {i \in 1..Len(list) : list[i].expertise_area = expertise_area}, 1)

FilterSearch(list, search) ==
  LET search_lower == Lower(search)
  IN  SelectIdx(list,
        {i \in 1..Len(list) :
           \/ Contains(Lower(list[i].name), search_lower)
           \/ Contains(Lower(list[i].affiliation), search_lower)}, 1)

\* the filters of lines 136-149; a list comprehension binds result to a new list
ApplyFilters(r0, country, expertise_area, search) ==
  LET r1 == IF TruthySeq(country)
            THEN [list |-> FilterCountry(r0.list, Val(country)), alias |-> FALSE]
            ELSE r0
      r2 == IF TruthyStr(expertise_area)
            THEN [list |-> FilterExpertise(r1.list, Val(expertise_area)), alias |-> FALSE]
            ELSE r1
  IN  IF TruthySeq(search)
      THEN [list |-> FilterSearch(r2.list, Val(search)), alias |-> FALSE]
      ELSE r2

\* which ValueError, if any, the sorting block raises
SortError(sort_by, order) ==
  IF ~TruthyStr(sort_by) THEN ""
  ELSE IF Val(sort_by) \notin valid_sort_fields THEN "ValueError"
  ELSE IF order \notin valid_orders THEN "ValueError"
  ELSE ""

\* result.sort(...) of lines 163-176, in place
ApplySort(r, sort_by, order) ==
  IF ~TruthyStr(sort_by) THEN r
  ELSE [list |-> SortedBy(r.list, Val(sort_by), order = "desc"), alias |-> r.alias]

\* the limit cut before the offset skip
ApplyPaginationLimitFirst(list, limit, offset) ==
  LET r1 == IF limit # None THEN SliceTo(list, Val(limit)) ELSE list
  IN  IF offset > 0 THEN SliceFrom(r1, offset) ELSE r1

\* lines 178-183
ApplyPagination(list, limit, offset) ==
  LET r1 == IF offset > 0 THEN SliceFrom(list, offset) ELSE list
  IN  IF limit # None THEN SliceTo(r1, Val(limit)) ELSE r1

\* the call's outcome: the exception raised (or ""), the list returned, and the
\* store as the call leaves it (a sort of an aliased list is a sort of the store)
get_kols_filtered(self_kols, country, expertise_area, search, sort_by, order, limit, offset) ==
  LET r0 == ListCopy(self_kols)
      rf == ApplyFilters(r0, country, expertise_area, search)
      err == SortError(sort_by, order)
      rs == ApplySort(rf, sort_by, order)
  IN  IF err # ""
      THEN [raised |-> err, result |-> <<>>, self_kols |-> self_kols]
      ELSE [raised |-> "",
            result |-> ApplyPagination(rs.list, limit, offset),
            self_kols |-> IF rs.alias THEN rs.list ELSE self_kols]

(***************************************************************************)
(* KOLService.get_all_kols, get_kol_by_id                                  *)
(***************************************************************************)
\* return self._kols
get_all_kols(self_kols) == self_kols

\* the last record whose id is kol_id
get_kol_by_id_last(self_kols, kol_id) ==
  LET hits == {i \in 1..Len(self_kols) : self_kols[i].id = kol_id}
  IN  IF hits = {} THEN <<>>
      ELSE <<self_kols[CHOOSE i \in hits : \A j \in hits : j <= i]>>

\* the first record whose id is kol_id, as <<record>>; <<>> is None
RECURSIVE get_kol_by_id(_, _)
get_kol_by_id(self_kols, kol_id) ==
  IF Len(self_kols) = 0 THEN <<>>
  ELSE IF Head(self_kols).id = kol_id THEN <<Head(self_kols)>>
  ELSE get_kol_by_id(Tail(self_kols), kol_id)

(***************************************************************************)
(* KOLService.compute_stats                                                *)
(***************************************************************************)
RECURSIVE SumSeq(_)
SumSeq(s) == IF Len(s) = 0 THEN 0 ELSE Head(s) + SumSeq(Tail(s))

\* round(num / den, 2) in hundredths, for num >= 0 and den > 0: the nearest
\* hundredth (an exact half goes to the even one)
Round2(num, den) ==
  LET q == (100 * num) \div den
      r == (100 * num) % den
  IN  IF 2 * r > den THEN q + 1
      ELSE IF 2 * r = den THEN q + (q % 2)
      ELSE q

Present(list, field) ==
  SelectIdx(list, {i \in 1..Len(list) : NumField(list[i], field) # None}, 1)

ValuesOf(list, field) == [i \in 1..Len(list) |-> Val(NumField(list[i], field))]

\* Counter(kol.country for kol in self._kols): the countries in the order first
\* encountered, each with its number of records
RECURSIVE CountryCounter(_, _)
CountryCounter(list, seen) ==
  IF Len(list) = 0 THEN <<>>
  ELSE IF Head(list).country \in seen THEN CountryCounter(Tail(list), seen)
  ELSE <<[country |-> Head(list).country,
          count |-> Cardinality({i \in 1..Len(list) : list[i].country = Head(list).country})]>>
       \o CountryCounter(Tail(list), seen \cup {Head(list).country})

\* the n largest counts with ties reversed
most_common_reversed(counter, n) ==
  LET dec == [i \in 1..Len(counter) |-> [key |-> <<counter[i].count>>, item |-> counter[i]]]
      out == ListSortReversed(dec, TRUE)
  IN  [i \in 1..Min(n, Len(out)) |-> out[i].item]

\* Counter.most_common(n): sorted(items, key=count, reverse=True)[:n]
most_common(counter, n) ==
  LET dec == [i \in 1..Len(counter) |-> [key |-> <<counter[i].count>>, item |-> counter[i]]]
      out == ListSort(dec, TRUE)
  IN  [i \in 1..Min(n, Len(out)) |-> out[i].item]

TopN == 10

Sentinel ==
  [id |-> "", name |-> <<"N", "/", "A">>, ratio |-> 0, citations |-> 0,
   publications_count |-> 0]

\* lines 262-264
Qualifies(kol) ==
  /\ kol.citations # None
  /\ kol.publications_count # None
  /\ Val(kol.publications_count) > 0

\* the scan of lines 257-269: best is <<kol>> or <<>> (None), the running best
\* ratio is num / den
RECURSIVE RatioScan(_, _, _, _)
RatioScan(list, best, num, den) ==
  IF Len(list) = 0 THEN [best |-> best, num |-> num, den |-> den]
  ELSE LET kol == Head(list)
       IN  IF Qualifies(kol) /\ Val(kol.citations) * den > num * Val(kol.publications_count)
           THEN RatioScan(Tail(list), <<kol>>, Val(kol.citations), Val(kol.publications_count))
           ELSE RatioScan(Tail(list), best, num, den)

find_highest_ratio_kol(self_kols) ==
  LET scan == RatioScan(self_kols, <<>>, 0, 1)
  IN  IF Len(scan.best) > 0
      THEN [id |-> scan.best[1].id,
            name |-> scan.best[1].name,
            ratio |-> Round2(scan.num, scan.den),
            citations |-> IF TruthyInt(scan.best[1].citations)
                          THEN Val(scan.best[1].citations) ELSE 0,
            publications_count |-> IF TruthyInt(scan.best[1].publications_count)
                                   THEN Val(scan.best[1].publications_count) ELSE 0]
      ELSE Sentinel

\* the emptiness test without the strip
IsEmptyString(s) == Len(s) = 0

\* str.strip() leaves nothing: every character is white space
StripsToEmpty(s) == \A i \in 1..Len(s) : s[i] = " "

\* an entry of the issue list: the count and the text that follows it
Issue(count, text) == [count |-> count, text |-> text]

IssueIf(count, text) == IF count > 0 THEN <<Issue(count, text)>> ELSE <<>>

analyze_data_quality(self_kols) ==
  LET n == Len(self_kols)
      missing_pubs == Cardinality({i \in 1..n : self_kols[i].publications_count = None})
      missing_citations == Cardinality({i \in 1..n : self_kols[i].citations = None})
      missing_h_index == Cardinality({i \in 1..n : self_kols[i].h_index = None})
      zero_pubs == Cardinality({i \in 1..n :
                      /\ self_kols[i].publications_count = Some(0)
                      /\ TruthyInt(self_kols[i].h_index)
                      /\ Val(self_kols[i].h_index) > 0})
      empty_names == Cardinality({i \in 1..n : StripsToEmpty(self_kols[i].name)})
      empty_countries == Cardinality({i \in 1..n : StripsToEmpty(self_kols[i].country)})
      duplicate_ids == n - Cardinality({self_kols[i].id : i \in 1..n})
      issues ==
        IssueIf(missing_pubs, "KOL(s) with missing publications count")
        \o IssueIf(missing_citations, "KOL(s) with missing citations")
        \o IssueIf(missing_h_index, "KOL(s) with missing h-index")
        \o IssueIf(zero_pubs, "KOL(s) with 0 publications but positive h-index")
        \o IssueIf(empty_names, "KOL(s) with empty names")
        \o IssueIf(empty_countries, "KOL(s) with empty countries")
        \o IssueIf(duplicate_ids, "duplicate KOL ID(s) found")
  IN  IF Len(issues) = 0
      THEN <<Issue(0, "No significant data quality issues detected")>>
      ELSE issues

\* the empty store reported like a store without issues
empty_stats_no_issues ==
  [total_kols |-> 0, unique_countries |-> 0, total_publications |-> 0,
   avg_h_index |-> 0, top10_countries_by_kol_count |-> <<>>,
   highest_citations_per_publication_kol |-> Sentinel,
   data_quality_issues |-> <<Issue(0, "No significant data quality issues detected")>>]

empty_stats ==
  [total_kols |-> 0, unique_countries |-> 0, total_publications |-> 0,
   avg_h_index |-> 0, top10_countries_by_kol_count |-> <<>>,
   highest_citations_per_publication_kol |-> Sentinel,
   data_quality_issues |-> <<Issue(0, "No data loaded")>>]

compute_stats(self_kols) ==
  IF Len(self_kols) = 0 THEN empty_stats
  ELSE LET h_indices == ValuesOf(Present(self_kols, "h_index"), "h_index")
       IN  [total_kols |-> Len(self_kols),
            unique_countries |->
              Cardinality({self_kols[i].country : i \in 1..Len(self_kols)}),
            total_publications |->
              SumSeq(ValuesOf(Present(self_kols, "publications_count"),
                              "publications_count")),
            avg_h_index |-> IF Len(h_indices) > 0
                            THEN Round2(SumSeq(h_indices), Len(h_indices))
                            ELSE 0,
            top10_countries_by_kol_count |->
              most_common(CountryCounter(self_kols, {}), TopN),
            highest_citations_per_publication_kol |-> find_highest_ratio_kol(self_kols),
            data_quality_issues |-> analyze_data_quality(self_kols)]

(***************************************************************************)
(* The routes (api/routes_kols.py)                                         *)
(***************************************************************************)
\* Query(None, ge=1, le=1000)
LimitMin == 1

LimitMax == 1000

\* Query(0, ge=0)
OffsetMin == 0

\* the two services taken for one another
get_service_swapped(services, source) ==
  IF source = "excel" THEN services.mock ELSE services.excel

\* excel_service if source == "excel" else json_service
get_service(services, source) ==
  IF source = "excel" THEN services.excel ELSE services.mock

\* the services after a call on the selected one left its store as new_kols
put_service(services, source, new_kols) ==
  IF source = "excel" THEN [services EXCEPT !.excel = new_kols]
  ELSE [services EXCEPT !.mock = new_kols]

\* the limit declared without its lower bound
QueryValidNoMin(limit, offset) ==
  /\ limit # None => Val(limit) <= LimitMax
  /\ offset >= OffsetMin

\* FastAPI's validation of the declared query parameters of get_kols
QueryValid(limit, offset) ==
  /\ limit # None => (Val(limit) >= LimitMin /\ Val(limit) <= LimitMax)
  /\ offset >= OffsetMin

\* The routes exist once the module-level construction of both services has
\* returned; an exception there ends the import of the routes module.
Serving == startup.error = ""

Request(op, source, country, expertise_area, search, sort_by, order, limit, offset, kol_id) ==
  [op |-> op, source |-> source, country |-> country,
   expertise_area |-> expertise_area, search |-> search, sort_by |-> sort_by,
   order |-> order, limit |-> limit, offset |-> offset, kol_id |-> kol_id]

ListRequest(source, country, expertise_area, search, sort_by, order, limit, offset) ==
  Request("list", source, country, expertise_area, search, sort_by, order, limit, offset, "")

NoRequest == Request("none", "excel", None, None, None, None, "asc", None, 0, "")

Response(status, error, items, stats) ==
  [status |-> status, error |-> error, items |-> items, stats |-> stats]

NoResponse == Response(0, "", <<>>, <<>>)

\* the service call of the list route on the request's parameters
ListCall(services, r) ==
  get_kols_filtered(get_service(services, r.source), r.country, r.expertise_area,
                    r.search, r.sort_by, r.order, r.limit, r.offset)

\* GET /api/kols: the response and the services as the handler leaves them
ListHandler(services, r) ==
  IF ~QueryValid(r.limit, r.offset)
  THEN [response |-> Response(422, "RequestValidationError", <<>>, <<>>),
        services |-> services]
  ELSE LET out == ListCall(services, r)
       IN  [response |-> IF out.raised = "ValueError"
                         THEN Response(400, "ValueError", <<>>, <<>>)
                         ELSE Response(200, "", out.result, <<>>),
            services |-> put_service(services, r.source, out.self_kols)]

get_kols(Requests) ==
  \E r \in Requests :
    \E out \in {ListHandler(kols, r)} :
        /\ Serving
        /\ request' = r
        /\ response' = out.response
        /\ kols' = out.services
        /\ UNCHANGED <<loaded, startup>>

StatsRequest(source) ==
  Request("stats", source, None, None, None, None, "asc", None, 0, "")

ByIdRequest(source, kol_id) ==
  Request("getById", source, None, None, None, None, "asc", None, 0, kol_id)

SourcesRequest == Request("sources", "excel", None, None, None, None, "asc", None, 0, "")

\* GET /api/kols/stats
StatsHandler(services, r) ==
  Response(200, "", <<>>, <<compute_stats(get_service(services, r.source))>>)

get_kol_stats(Requests) ==
  \E r \in Requests :
    /\ Serving
    /\ request' = r
    /\ response' = StatsHandler(kols, r)
    /\ UNCHANGED <<kols, loaded, startup>>

\* GET /api/kols/{kol_id}: None becomes the 404 response
ByIdHandler(services, r) ==
  LET kol == get_kol_by_id(get_service(services, r.source), r.kol_id)
  IN  IF kol = <<>> THEN Response(404, "NotFound", <<>>, <<>>)
      ELSE Response(200, "", kol, <<>>)

get_kol_by_id_route(Requests) ==
  \E r \in Requests :
    /\ Serving
    /\ request' = r
    /\ response' = ByIdHandler(kols, r)
    /\ UNCHANGED <<kols, loaded, startup>>

\* GET /api/kols/sources: the record count of each service
SourcesHandler(services) ==
  Response(200, "", <<>>,
           <<[excel |-> Len(get_all_kols(services.excel)),
              mock |-> Len(get_all_kols(services.mock))]>>)

get_data_sources ==
  /\ Serving
  /\ request' = SourcesRequest
  /\ response' = SourcesHandler(kols)
  /\ UNCHANGED <<kols, loaded, startup>>

(***************************************************************************)
(* Data: the records a load can produce                                    *)
(***************************************************************************)
\* the Excel loader's generated ids: str(row_number - 1)
IdOf(i) ==
  <<"1", "2", "3", "4", "5", "6", "7", "8", "9", "10", "11", "12", "13", "14", "15">>[i]

WithIds(rows) == [i \in 1..Len(rows) |-> [rows[i] EXCEPT !.id = IdOf(i)]]

\* every store of at most n records over the universe U
StoresOf(U, n) == UNION {{WithIds(rows) : rows \in [1..k -> U]} : k \in 0..n}

\* the mock JSON data set, a fixed file
MockData ==
  <<KOL("m1", <<"A", "n">>, <<"B">>, <<"B">>, "derm", Some(2), Some(1), None),
    KOL("m2", <<"b">>, <<"a", "n">>, <<"A">>, "onco", None, Some(0), Some(1))>>

(***************************************************************************)
(* Loading: KOLService.__init__ / _load_data and the Excel parser.  A      *)
(* source row is held by the fields it may lack (id, name, country); its   *)
(* other cells are present and the same in every row, so no row is blank.  *)
(***************************************************************************)
RawRow(id, name, country) == [id |-> id, name |-> name, country |-> country]

RECURSIVE LStrip(_)
LStrip(s) == IF s # <<>> /\ Head(s) = " " THEN LStrip(Tail(s)) ELSE s

\* str.strip() for the blank character
Strip(s) == Reverse(LStrip(Reverse(LStrip(s))))

\* ExcelParser._parse_value for a string field: `str(value).strip() if value else None`
parse_value(value) ==
  IF value = None THEN None
  ELSE IF Val(value) = <<>> THEN None
  ELSE Some(Strip(Val(value)))

\* ExcelParser._parse_row: keeps the values that are not None, generates the
\* id from the row number when the row has none, and returns None (here: the
\* empty Optional) for a row without a name
parse_row(row, row_number) ==
  LET record == RawRow(IF row.id = None THEN Some(IdOf(row_number - 1)) ELSE row.id,
                       parse_value(row.name), parse_value(row.country))
  IN  IF record.name # None THEN Some(record) ELSE None

RECURSIVE parse_rows(_, _)
parse_rows(rows, row_idx) ==
  IF row_idx - 1 > Len(rows) THEN <<>>
  ELSE LET record == parse_row(rows[row_idx - 1], row_idx)
       IN  (IF record # None THEN <<Val(record)>> ELSE <<>>)
             \o parse_rows(rows, row_idx + 1)

\* ExcelParser._parse_sheet: the data rows start at row 2
parse_sheet(rows) == parse_rows(rows, 2)

\* ExcelParser.parse_excel_file: every error of the workbook becomes ValueError
parse_excel_file(file) ==
  IF file.state = "ok"
  THEN [raised |-> "", records |-> parse_sheet(file.rows)]
  ELSE [raised |-> "ValueError", records |-> <<>>]

\* pydantic's validation of KOL(**record): id, name and country are required
Validates(record) ==
  record.id # None /\ record.name # None /\ record.country # None

ToKOL(record) ==
  KOL(Val(record.id), Val(record.name), <<"A">>, Val(record.country), "derm",
      None, None, None)

Loaded(raised, records) == [raised |-> raised, kols |-> records]

\* KOLService._load_data for DATA_FILE, a .json path: Excel is tried only on
\* use_excel, any exception of the Excel parser is caught, and an empty
\* raw_data falls through to the JSON file
load_data(files, use_excel) ==
  LET should_try_excel == use_excel
      excel_path_exists == files.excel.state # "absent"
      parsed == parse_excel_file(files.excel)
      excel_data ==
        IF should_try_excel /\ files.EXCEL_AVAILABLE /\ excel_path_exists
             /\ parsed.raised = ""
        THEN parsed.records
        ELSE <<>>
  IN  IF excel_data = <<>> /\ files.json.state = "absent"
      THEN Loaded("FileNotFoundError", <<>>)
      ELSE IF excel_data = <<>> /\ files.json.state = "malformed"
      THEN Loaded("JSONDecodeError", <<>>)
      ELSE LET raw_data == IF excel_data = <<>> THEN files.json.rows ELSE excel_data
           IN  IF \E i \in 1..Len(raw_data) : ~Validates(raw_data[i])
               THEN Loaded("ValidationError", <<>>)
               ELSE Loaded("", [i \in 1..Len(raw_data) |-> ToKOL(raw_data[i])])

\* the module-level construction of excel_service, then of json_service
ConstructServices(files) ==
  LET excel_service == load_data(files, TRUE)
      json_service == load_data(files, FALSE)
  IN  IF excel_service.raised # ""
      THEN [error |-> excel_service.raised, kols |-> [excel |-> <<>>, mock |-> <<>>]]
      ELSE IF json_service.raised # ""
      THEN [error |-> json_service.raised, kols |-> [excel |-> <<>>, mock |-> <<>>]]
      ELSE [error |-> "", kols |-> [excel |-> excel_service.kols, mock |-> json_service.kols]]

SourceFile(state, rows) == [state |-> state, rows |-> rows]

\* what the process found on disk at start-up
Files(excel_available, excel, json) ==
  [EXCEL_AVAILABLE |-> excel_available, excel |-> excel, json |-> json]

\* a start-up that succeeded from files the specification leaves open
Started ==
  [error |-> "",
   files |-> Files(TRUE, SourceFile("unspecified", <<>>), SourceFile("unspecified", <<>>))]

OptVals == {None, Some(0), Some(1), Some(2)}

\* a second and a third numeric field that differ from the first
Cycle(v) == IF v = None THEN Some(0) ELSE IF Val(v) = 2 THEN None ELSE Some(Val(v) + 1)

Flip(v) == IF v = None THEN Some(2) ELSE IF Val(v) = 2 THEN None ELSE Some(1 - Val(v))

(***************************************************************************)
(* SpecSort: list requests that sort, over stores whose records differ in  *)
(* name and in the numeric fields                                          *)
(***************************************************************************)
MaxSortKols == 3

\* name and publications_count of the records; h_index and citations follow
SortRows ==
  {<<<<"a">>, None>>, <<<<"B">>, None>>, <<<<"a">>, Some(0)>>,
   <<<<"B">>, Some(1)>>, <<<<"a">>, Some(2)>>, <<<<"B">>, Some(2)>>}

SortKOLs ==
  {KOL("", row[1], <<"A">>, <<"A">>, "derm", row[2], Cycle(row[2]), Flip(row[2])) :
     row \in SortRows}

SortFields ==
  {None, Some(""), Some("publications_count"), Some("citations"), Some("h_index"),
   Some("name"), Some("unknown_field")}

SortOrders == {"asc", "desc", "up"}

SortRequests ==
  {ListRequest("excel", None, None, None, sort_by, order, None, 0) :
     sort_by \in SortFields, order \in SortOrders}

InitSort ==
  /\ \E s \in StoresOf(SortKOLs, MaxSortKols) :
       /\ kols = [excel |-> s, mock |-> MockData]
       /\ loaded = [excel |-> s, mock |-> MockData]
  /\ request = NoRequest
  /\ response = NoResponse
  /\ startup = Started

NextSort == get_kols(SortRequests)

SpecSort == InitSort /\ [][NextSort]_vars

(***************************************************************************)
(* SpecFilter: list requests that filter, over stores whose records differ *)
(* in name, affiliation, country and expertise area                        *)
(***************************************************************************)
MaxFilterKols == 3

\* name, affiliation, country, expertise_area
FilterRows ==
  {<<<<"A", "n">>, <<"B">>, <<"A">>, "derm">>,
   <<<<"b">>, <<"a", "N">>, <<"a">>, "derm">>,
   <<<<"a">>, <<"b">>, <<>>, "onco">>,
   <<<<"B">>, <<"A">>, <<"A">>, "onco">>,
   <<<<"n">>, <<"N", " ">>, <<"B">>, "Derm">>}

FilterKOLs ==
  {KOL("", row[1], row[2], row[3], row[4], Some(1), None, Some(0)) : row \in FilterRows}

FilterCountries == {None, Some(<<>>), Some(<<"A">>), Some(<<"a">>)}

FilterExpertises == {None, Some("derm")}

FilterSearches == {None, Some(<<>>), Some(<<"A", "n">>)}

FilterRequests ==
  {ListRequest("excel", country, expertise_area, search, None, "asc", None, 0) :
     country \in FilterCountries, expertise_area \in FilterExpertises,
     search \in FilterSearches}

InitFilter ==
  /\ \E s \in StoresOf(FilterKOLs, MaxFilterKols) :
       /\ kols = [excel |-> s, mock |-> MockData]
       /\ loaded = [excel |-> s, mock |-> MockData]
  /\ request = NoRequest
  /\ response = NoResponse
  /\ startup = Started

NextFilter == get_kols(FilterRequests)

SpecFilter == InitFilter /\ [][NextFilter]_vars

(***************************************************************************)
(* SpecPage: list requests that paginate a filtered and sorted sequence    *)
(***************************************************************************)
MaxPageKols == 3

\* country, citations
PageRows == {<<<<"A">>, Some(1)>>, <<<<"B">>, Some(2)>>, <<<<"A">>, None>>}

PageKOLs ==
  {KOL("", <<"a">>, <<"b">>, row[1], "derm", Some(1), None, row[2]) : row \in PageRows}

PageCountries == {None, Some(<<"A">>)}

\* sort_by, order
PageSorts ==
  {<<None, "asc">>, <<Some("citations"), "asc">>, <<Some("citations"), "desc">>}

PageLimits == {None, Some(-1), Some(0), Some(1), Some(2), Some(LimitMax + 1)}

PageOffsets == {0, 1, 3}

PageRequests ==
  {ListRequest("excel", country, None, None, sort[1], sort[2], limit, offset) :
     country \in PageCountries, sort \in PageSorts, limit \in PageLimits,
     offset \in PageOffsets}

InitPage ==
  /\ \E s \in StoresOf(PageKOLs, MaxPageKols) :
       /\ kols = [excel |-> s, mock |-> MockData]
       /\ loaded = [excel |-> s, mock |-> MockData]
  /\ request = NoRequest
  /\ response = NoResponse
  /\ startup = Started

NextPage == get_kols(PageRequests)

SpecPage == InitPage /\ [][NextPage]_vars

(***************************************************************************)
(* SpecStats: statistics requests over stores whose records differ in      *)
(* country and in the numeric fields, and over long stores of more than    *)
(* TopN countries                                                          *)
(***************************************************************************)
MaxStatsKols == 3

\* country, publications_count, citations, h_index
StatsRows ==
  {<<<<"A">>, Some(1), Some(0), Some(1)>>,
   <<<<"B">>, Some(2), Some(0), None>>,
   <<<<"A">>, Some(2), Some(2), Some(2)>>,
   <<<<"B">>, Some(1), Some(1), Some(0)>>,
   <<<<"C">>, Some(0), Some(2), Some(1)>>,
   <<<<"A">>, None, Some(2), Some(0)>>,
   <<<<" ">>, Some(1), None, None>>,
   <<<<"B">>, Some(1), Some(2), Some(1)>>,
   <<<<"C">>, Some(3), Some(2), Some(2)>>}

StatsKOLs ==
  {KOL("", <<"a">>, <<"b">>, row[1], "derm", row[2], row[4], row[3]) : row \in StatsRows}

\* TopN + 1 distinct countries
ManyCountries ==
  <<<<"A">>, <<"B">>, <<"C">>, <<"D">>, <<"E">>, <<"F">>, <<"G">>, <<"H">>,
    <<"I">>, <<"J">>, <<"K">>>>

CountryRow(country) == KOL("", <<"a">>, <<"b">>, country, "derm", None, None, None)

\* at most MaxExtra records of any of these countries come before one record
\* of each
MaxExtra == 2

LongStores ==
  UNION {{WithIds([i \in 1..(k + Len(ManyCountries)) |->
                     IF i <= k THEN CountryRow(ManyCountries[extra[i]])
                     ELSE CountryRow(ManyCountries[i - k])]) :
            extra \in [1..k -> 1..Len(ManyCountries)]} : k \in 0..MaxExtra}

StatsRequests == {StatsRequest("excel"), StatsRequest("mock")}

InitStats ==
  /\ \E s \in StoresOf(StatsKOLs, MaxStatsKols) \cup LongStores :
       /\ kols = [excel |-> s, mock |-> MockData]
       /\ loaded = [excel |-> s, mock |-> MockData]
  /\ request = NoRequest
  /\ response = NoResponse
  /\ startup = Started

NextStats == get_kol_stats(StatsRequests)

SpecStats == InitStats /\ [][NextStats]_vars

(***************************************************************************)
(* SpecQuality: statistics and lookups over stores loaded from JSON, whose *)
(* records carry their own ids (repeated ones too), blank names and blank  *)
(* countries                                                               *)
(***************************************************************************)
MaxQualityKols == 3

Sources == {"excel", "mock"}

AllStatsRequests == {StatsRequest(source) : source \in Sources}

\* id, name, country, publications_count, h_index, citations
QualityRows ==
  {<<"x", <<"a">>, <<"A">>, Some(1), Some(1), Some(1)>>,
   <<"x", <<" ">>, <<"A">>, Some(0), Some(2), None>>,
   <<"y", <<"a">>, <<>>, None, None, Some(1)>>,
   <<"y", <<"a">>, <<"B">>, Some(2), Some(0), Some(0)>>,
   <<"z", <<>>, <<" ">>, Some(0), Some(0), Some(2)>>}

QualityKOLs ==
  {KOL(row[1], row[2], <<"b">>, row[3], "derm", row[4], row[5], row[6]) :
     row \in QualityRows}

QualityStores == UNION {[1..k -> QualityKOLs] : k \in 0..MaxQualityKols}

QualityByIdRequests ==
  {ByIdRequest(source, kol_id) : source \in Sources, kol_id \in {"x", "y", "m2", ""}}

InitQuality ==
  /\ \E s \in QualityStores :
       /\ kols = [excel |-> s, mock |-> MockData]
       /\ loaded = [excel |-> s, mock |-> MockData]
  /\ request = NoRequest
  /\ response = NoResponse
  /\ startup = Started

NextQuality ==
  \/ get_kol_stats(AllStatsRequests)
  \/ get_kol_by_id_route(QualityByIdRequests)

SpecQuality == InitQuality /\ [][NextQuality]_vars

(***************************************************************************)
(* Spec: requests of every kind, one after another in any order            *)
(***************************************************************************)
MaxKols == 3

\* sort_by, order
AllSorts ==
  {<<None, "asc">>, <<Some("citations"), "asc">>, <<Some("citations"), "desc">>,
   <<Some("name"), "desc">>, <<Some("unknown_field"), "asc">>}

AllListRequests ==
  {ListRequest(source, country, None, None, sort[1], sort[2], limit, offset) :
     source \in Sources, country \in PageCountries, sort \in AllSorts,
     limit \in {None, Some(1)}, offset \in {0, 1}}

AllByIdRequests == {ByIdRequest(source, kol_id) : source \in Sources, kol_id \in {"1", "3", "m2", "zz"}}

Init ==
  /\ \E s \in StoresOf(PageKOLs, MaxKols) :
       /\ kols = [excel |-> s, mock |-> MockData]
       /\ loaded = [excel |-> s, mock |-> MockData]
  /\ request = NoRequest
  /\ response = NoResponse
  /\ startup = Started

Next ==
  \/ get_data_sources
  \/ get_kols(AllListRequests)
  \/ get_kol_stats(AllStatsRequests)
  \/ get_kol_by_id_route(AllByIdRequests)

Spec == Init /\ [][Next]_vars

(***************************************************************************)
(* SpecLoad: the start-up from the files on disk, then list and sources    *)
(* requests against what was loaded                                        *)
(***************************************************************************)
MaxLoadRows == 2

ExcelRows ==
  {RawRow(None, Some(<<"a">>), Some(<<"A">>)),
   RawRow(None, Some(<<"a", " ">>), Some(<<"A">>)),
   RawRow(None, None, Some(<<"A">>)),
   RawRow(None, Some(<<"a">>), None)}

JsonRows ==
  {RawRow(Some("m1"), Some(<<"b">>), Some(<<"B">>)),
   RawRow(Some("m2"), None, Some(<<"B">>)),
   RawRow(Some("m3"), Some(<<"b">>), None)}

RowSeqs(U, n) == UNION {[1..k -> U] : k \in 0..n}

ExcelFiles ==
  {SourceFile("absent", <<>>), SourceFile("corrupt", <<>>)}
    \cup {SourceFile("ok", rows) : rows \in RowSeqs(ExcelRows, MaxLoadRows)}

JsonFiles ==
  {SourceFile("absent", <<>>), SourceFile("malformed", <<>>)}
    \cup {SourceFile("ok", rows) : rows \in RowSeqs(JsonRows, MaxLoadRows)}

Environments ==
  {Files(excel_available, excel, json) :
     excel_available \in BOOLEAN, excel \in ExcelFiles, json \in JsonFiles}

LoadRequests ==
  {ListRequest(source, None, None, None, None, "asc", None, 0) : source \in Sources}

InitLoad ==
  /\ \E files \in Environments :
       \E out \in {ConstructServices(files)} :
         /\ kols = out.kols
         /\ loaded = out.kols
         /\ startup = [error |-> out.error, files |-> files]
  /\ request = NoRequest
  /\ response = NoResponse

NextLoad ==
  \/ get_data_sources
  \/ get_kols(LoadRequests)

SpecLoad == InitLoad /\ [][NextLoad]_vars

(***************************************************************************)
(* Properties of sorting and of parameter validation (SpecSort)            *)
(***************************************************************************)
NumericFields == {"publications_count", "citations", "h_index"}

\* the last request was a list request that the route answered with records
ListAnswered == request.op = "list" /\ response.status = 200

\* the sequence the sort of the last request was applied to (lines 133-149)
PreSort ==
  ApplyFilters(ListCopy(get_service(loaded, request.source)), request.country,
               request.expertise_area, request.search).list

\* C1: for every numeric sort field and both orders, every returned record
\* that has the sort field present comes before every record that lacks it.
C1_NullLast ==
  (/\ ListAnswered
   /\ request.sort_by # None
   /\ Val(request.sort_by) \in NumericFields
   /\ request.order \in valid_orders)
  => \A i, j \in 1..Len(response.items) :
       (/\ NumField(response.items[i], Val(request.sort_by)) # None
        /\ NumField(response.items[j], Val(request.sort_by)) = None) => i < j

\* C4: a list request whose supplied sort field is not one of the four valid
\* fields ends in a validation error (400) and returns no records.
C4_InvalidSortFieldRejected ==
  (/\ request.op = "list"
   /\ QueryValid(request.limit, request.offset)
   /\ request.sort_by # None
   /\ Val(request.sort_by) \notin valid_sort_fields)
  => (response.status = 400 /\ response.error = "ValueError" /\ response.items = <<>>)

\* C5: a list request whose order is neither "asc" nor "desc" ends in a
\* validation error, whether or not a sort field is supplied.
C5_InvalidOrderRejected ==
  (/\ request.op = "list"
   /\ QueryValid(request.limit, request.offset)
   /\ request.order \notin valid_orders)
  => (response.status = 400 /\ response.error = "ValueError")

\* the sort key the claim speaks of: the name, or the numeric field's value
ClaimKey(x, sort_by) == IF sort_by = "name" THEN x.name ELSE NumField(x, sort_by)

\* the position of record x in the sequence s (records of a store differ in id)
PosIn(s, x) == CHOOSE k \in 1..Len(s) : s[k] = x

\* C8: for every valid sort field and both orders, two records with equal sort
\* keys (two records lacking the field included) keep, in the sorted result,
\* the relative order they had in the filtered sequence before sorting.
C8_StableSort ==
  (/\ ListAnswered
   /\ request.sort_by # None
   /\ Val(request.sort_by) \in valid_sort_fields
   /\ request.limit = None /\ request.offset = 0)
  => /\ Len(response.items) = Len(PreSort)
     /\ \A i, j \in 1..Len(response.items) :
          (/\ i < j
           /\ ClaimKey(response.items[i], Val(request.sort_by))
                = ClaimKey(response.items[j], Val(request.sort_by)))
          => PosIn(PreSort, response.items[i]) < PosIn(PreSort, response.items[j])

\* a descending sort answered with three records, two of them with equal keys
\* and a third, with another key, that the sort moved
C8_Witness ==
  /\ ListAnswered
  /\ request.sort_by = Some("citations")
  /\ request.order = "desc"
  /\ Len(response.items) = 3
  /\ response.items # PreSort
  /\ \E i, j \in 1..3 :
       /\ i < j
       /\ response.items[i].citations = response.items[j].citations
       /\ response.items[i].citations # None

(***************************************************************************)
(* Properties of filtering (SpecFilter)                                    *)
(***************************************************************************)
\* C3: list(country=C) with no other parameter returns, for every string C
\* (the empty one too), exactly the records whose country equals C, in store
\* order.
C3_CountryFilterExact ==
  (/\ ListAnswered
   /\ request.country # None
   /\ request.expertise_area = None /\ request.search = None
   /\ request.sort_by = None /\ request.limit = None /\ request.offset = 0)
  => response.items
       = FilterCountry(get_service(loaded, request.source), Val(request.country))

(***************************************************************************)
(* Properties of pagination (SpecPage)                                     *)
(***************************************************************************)
\* C6: a list request with limit 0 or a negative limit is rejected as invalid
\* input; it never returns a record sequence.
C6_NonPositiveLimitRejected ==
  (/\ request.op = "list"
   /\ request.limit # None
   /\ Val(request.limit) <= 0)
  => (/\ response.status = 422
      /\ response.error = "RequestValidationError"
      /\ response.items = <<>>)

C6_Witness ==
  /\ request.op = "list"
  /\ request.limit = Some(-1)
  /\ Len(get_service(loaded, request.source)) >= 2
  /\ request.country = None
  /\ response.status = 422

\* the outcome of the last request's service call made without pagination
Unpaginated ==
  get_kols_filtered(get_service(loaded, request.source), request.country,
                    request.expertise_area, request.search, request.sort_by,
                    request.order, None, 0)

\* the l elements of s starting at index o, fewer when s ends
Window(s, o, l) == [i \in 1..Max(0, Min(l, Len(s) - o)) |-> s[o + i]]

\* C7: for offset o >= 0, limit l >= 1 and every filter/sort combination the
\* list operation returns the l elements (or fewer) starting at index o of the
\* same request's unpaginated result, and the empty sequence, not an error,
\* when o is at or beyond that result's length.
C7_PaginationComposition ==
  (/\ request.op = "list"
   /\ request.limit # None
   /\ Val(request.limit) >= 1 /\ Val(request.limit) <= LimitMax
   /\ request.offset >= 0
   /\ Unpaginated.raised = "")
  => /\ response.status = 200
     /\ response.items = Window(Unpaginated.result, request.offset, Val(request.limit))
     /\ request.offset >= Len(Unpaginated.result) => response.items = <<>>

\* a filtered, descending-sorted request whose window starts inside the
\* unpaginated result and ends before its end
C7_Witness ==
  /\ ListAnswered
  /\ request.country # None
  /\ request.sort_by = Some("citations") /\ request.order = "desc"
  /\ request.offset = 1 /\ request.limit = Some(1)
  /\ Len(Unpaginated.result) = 3
  /\ response.items = <<Unpaginated.result[2]>>
  /\ Unpaginated.result # get_service(loaded, request.source)

(***************************************************************************)
(* Properties of the statistics (SpecStats)                                *)
(***************************************************************************)
StatsAnswered == request.op = "stats" /\ response.status = 200

\* the store the last request was served from, as loaded
Served == get_service(loaded, request.source)

\* citations / publications_count of a and of b compared as fractions
RatioLess(a, b) ==
  Val(a.citations) * Val(b.publications_count)
    < Val(b.citations) * Val(a.publications_count)

\* C2: whenever a record has citations and publication count present and
\* publication count > 0, the highest-ratio record is the earliest record in
\* store order with the maximum ratio among those records (also when every
\* such ratio is 0); the sentinel is returned only when no record qualifies.
C2_HighestRatio ==
  StatsAnswered =>
    LET best == response.stats[1].highest_citations_per_publication_kol
        Q == {i \in 1..Len(Served) : Qualifies(Served[i])}
    IN  IF Q = {} THEN best = Sentinel
        ELSE \E i \in Q :
               /\ \A j \in Q : ~RatioLess(Served[i], Served[j])
               /\ \A j \in Q : j < i => RatioLess(Served[j], Served[i])
               /\ best.id = Served[i].id
               /\ best.name = Served[i].name
               /\ best.citations = Val(Served[i].citations)
               /\ best.publications_count = Val(Served[i].publications_count)

\* the number of records of a country, and where it is first met
CountOf(list, country) == Cardinality({i \in 1..Len(list) : list[i].country = country})

FirstIdx(list, country) ==
  CHOOSE i \in 1..Len(list) :
    list[i].country = country /\ \A j \in 1..(i - 1) : list[j].country # country

\* C10: top10_countries holds at most 10 pairs, counts non-increasing, each
\* the number of records of its country; no country left out has a larger
\* count than one listed; among equal counts (at the cut after the 10th too)
\* the country met first in store order comes first.
C10_TopCountries ==
  StatsAnswered =>
    LET top == response.stats[1].top10_countries_by_kol_count
        all == {Served[i].country : i \in 1..Len(Served)}
        listed == {top[i].country : i \in 1..Len(top)}
    IN  /\ Len(top) = Min(10, Cardinality(all))
        /\ Cardinality(listed) = Len(top)
        /\ listed \subseteq all
        /\ \A i \in 1..Len(top) : top[i].count = CountOf(Served, top[i].country)
        /\ \A i, j \in 1..Len(top) : i < j =>
             /\ top[i].count >= top[j].count
             /\ top[i].count = top[j].count =>
                  FirstIdx(Served, top[i].country) < FirstIdx(Served, top[j].country)
        /\ \A c \in all \ listed : \A i \in 1..Len(top) :
             /\ CountOf(Served, c) <= top[i].count
             /\ CountOf(Served, c) = top[i].count =>
                  FirstIdx(Served, top[i].country) < FirstIdx(Served, c)

\* eleven countries, the two met first with two records each, and a country
\* left out whose count equals that of the tenth entry
C10_Witness ==
  /\ StatsAnswered
  /\ LET top == response.stats[1].top10_countries_by_kol_count
     IN  /\ Len(top) = 10
         /\ top[1].count = 2 /\ top[2].count = 2 /\ top[10].count = 1
         /\ top[1].country = <<"K">> /\ top[2].country = <<"C">>
         /\ \E i \in 1..Len(Served) :
              /\ CountOf(Served, Served[i].country) = 1
              /\ \A k \in 1..10 : top[k].country # Served[i].country

(***************************************************************************)
(* Properties of the store under any sequence of requests (Spec)           *)
(***************************************************************************)
\* the response the request gets when it is the only one run on the loaded data
AloneResponse(r) ==
  CASE r.op = "list" -> ListHandler(loaded, r).response
    [] r.op = "stats" -> StatsHandler(loaded, r)
    [] r.op = "getById" -> ByIdHandler(loaded, r)
    [] r.op = "sources" -> SourcesHandler(loaded)
    [] OTHER -> NoResponse

\* C9: under any interleaving of list, getById, stats and listAll requests,
\* those ending in a validation error or in not-found included, the store is
\* in every reachable state the sequence that was loaded, and each request
\* gets the result it gets when run alone.
C9_StoreImmutable ==
  /\ kols = loaded
  /\ response = AloneResponse(request)

\* a sort of the whole store was answered in another order than the store's
C9_Witness ==
  /\ ListAnswered
  /\ request.country = None
  /\ request.sort_by = Some("citations") /\ request.order = "desc"
  /\ request.limit = None /\ request.offset = 0
  /\ Len(response.items) = 3
  /\ response.items # get_service(kols, request.source)

(***************************************************************************)
(* Properties of the data-quality report and of lookups (SpecQuality)      *)
(***************************************************************************)
\* the entries of the report for a count: one when it is not zero, else none
Entry(count, text) == IF count = 0 THEN <<>> ELSE <<[count |-> count, text |-> text]>>

Blank(s) == \A i \in 1..Len(s) : s[i] = " "

NoIssuesEntry == [count |-> 0, text |-> "No significant data quality issues detected"]

\* the seven counts of the report, in its order
QualityCounts(list) ==
  LET idx == 1..Len(list)
  IN  <<Cardinality({i \in idx : list[i].publications_count = None}),
        Cardinality({i \in idx : list[i].citations = None}),
        Cardinality({i \in idx : list[i].h_index = None}),
        Cardinality({i \in idx : /\ list[i].publications_count = Some(0)
                                 /\ list[i].h_index # None
                                 /\ Val(list[i].h_index) > 0}),
        Cardinality({i \in idx : Blank(list[i].name)}),
        Cardinality({i \in idx : Blank(list[i].country)}),
        Len(list) - Cardinality({list[i].id : i \in idx})>>

C15_GetById ==
  request.op = "getById" =>
    LET hits == {i \in 1..Len(Served) : Served[i].id = request.kol_id}
    IN  IF hits = {}
        THEN response = [status |-> 404, error |-> "NotFound", items |-> <<>>, stats |-> <<>>]
        ELSE /\ response.status = 200 /\ response.error = ""
             /\ response.items = <<Served[CHOOSE i \in hits : \A j \in hits : i <= j]>>
             /\ response.items[1].id = request.kol_id

\* a lookup of an id held by two different records, and one of an unknown id
C15_Witness ==
  /\ request.op = "getById"
  /\ request.kol_id = "x"
  /\ response.status = 200
  /\ \E i \in 1..Len(Served) : Served[i].id = "x" /\ Served[i] # response.items[1]

C15_WitnessNotFound ==
  /\ request.op = "getById"
  /\ request.kol_id = ""
  /\ Len(Served) > 0
  /\ response.status = 404

(***************************************************************************)
(* More properties of the statistics, of the list operation and of sorting *)
(***************************************************************************)
\* C12: on an empty store stats returns total count 0, unique country count
\* 0, total publications 0, average impact index 0, no top countries, the
\* sentinel highest-ratio record (empty id, name "N/A") and the single
\* data-quality entry "No data loaded", not the no-issues entry.
C12_EmptyStoreStats ==
  (StatsAnswered /\ Len(loaded[request.source]) = 0) =>
    LET st == response.stats[1]
    IN  /\ st.total_kols = 0
        /\ st.unique_countries = 0
        /\ st.total_publications = 0
        /\ st.avg_h_index = 0
        /\ st.top10_countries_by_kol_count = <<>>
        /\ st.highest_citations_per_publication_kol
             = [id |-> "", name |-> <<"N", "/", "A">>, ratio |-> 0, citations |-> 0,
                publications_count |-> 0]
        /\ st.data_quality_issues = <<[count |-> 0, text |-> "No data loaded"]>>

C12_Witness ==
  /\ StatsAnswered
  /\ request.source = "excel"
  /\ kols.excel = <<>>
  /\ Len(response.stats) = 1

\* the last request was a list request with no parameter supplied
ListNoParams ==
  /\ request.op = "list"
  /\ request.country = None /\ request.expertise_area = None
  /\ request.search = None /\ request.sort_by = None
  /\ request.limit = None /\ request.offset = 0

\* C13: the list operation called with no parameters returns every record of
\* the store in load order, and the total count of stats is the length of
\* that result.
C13_ListAllAndTotal ==
  /\ ListNoParams =>
       (response.status = 200 /\ response.items = loaded[request.source])
  /\ request.op = "stats" =>
       /\ response.status = 200
       /\ response.stats[1].total_kols = Len(loaded[request.source])
       /\ response.stats[1].total_kols
            = Len(get_kols_filtered(loaded[request.source], None, None, None, None,
                                    "asc", None, 0).result)

C13_Witness ==
  /\ ListNoParams
  /\ request.source = "excel"
  /\ Len(response.items) = 3
  /\ response.items # MockData

\* C14: for every combination of supplied country, expertise-area and search
\* parameters the list operation (no sort, no pagination) returns, in store
\* order, exactly the records that pass all supplied filters: country equal
\* to the country filter, expertise area equal to the expertise filter, and
\* the search string, compared case-insensitively, a substring of the name or
\* of the affiliation.
C14_ConjunctiveFilters ==
  (/\ ListAnswered
   /\ request.sort_by = None /\ request.limit = None /\ request.offset = 0)
  => response.items
       = SelectIdx(Served,
           {i \in 1..Len(Served) :
              /\ request.country # None => Served[i].country = Val(request.country)
              /\ request.expertise_area # None =>
                   Served[i].expertise_area = Val(request.expertise_area)
              /\ request.search # None =>
                   \/ Contains(Lower(Served[i].name), Lower(Val(request.search)))
                   \/ Contains(Lower(Served[i].affiliation), Lower(Val(request.search)))},
           1)

\* C17: for a numeric sort field and present values that are non-negative
\* integers (0 included), the records with the field present come in
\* non-decreasing order of it for order asc and in non-increasing order for
\* order desc.
C17_PresentValuesOrdered ==
  (/\ ListAnswered
   /\ request.sort_by # None
   /\ Val(request.sort_by) \in NumericFields
   /\ request.order \in valid_orders)
  => \A i, j \in 1..Len(response.items) :
       (/\ i < j
        /\ NumField(response.items[i], Val(request.sort_by)) # None
        /\ NumField(response.items[j], Val(request.sort_by)) # None)
       => IF request.order = "asc"
          THEN Val(NumField(response.items[i], Val(request.sort_by)))
                 <= Val(NumField(response.items[j], Val(request.sort_by)))
          ELSE Val(NumField(response.items[i], Val(request.sort_by)))
                 >= Val(NumField(response.items[j], Val(request.sort_by)))

\* the failures of one source file: missing or unreadable, or a row without
\* a required field
SourceFailure(file) ==
  \/ file.state # "ok"
  \/ \E i \in 1..Len(file.rows) :
       \/ file.rows[i].name = None
       \/ file.rows[i].country = None

\* every row of a sound source file as a record, in file order
RecordsOf(file) ==
  [i \in 1..Len(file.rows) |->
     KOL(IF file.rows[i].id = None THEN IdOf(i) ELSE Val(file.rows[i].id),
         Strip(Val(file.rows[i].name)), <<"A">>, Val(file.rows[i].country),
         "derm", None, None, None)]

\* C16: any load failure (a source file missing or unreadable, malformed
\* content, a row without a required field) aborts the construction, so no
\* request is ever answered; and when a request is answered, the store of
\* each source holds every record of that source's file, in order: not a
\* subset of them and not the records of the other source.
C16_LoadFailureFatal ==
  (request.op # "none")
  => /\ ~SourceFailure(startup.files.excel)
     /\ ~SourceFailure(startup.files.json)
     /\ kols.excel = RecordsOf(startup.files.excel)
     /\ kols.mock = RecordsOf(startup.files.json)

====
